---- MODULE Spec2Model ----
(***************************************************************************)
(* Formasaurus, formasaurus/classifiers.py: the FormFieldClassifier facade  *)
(* (load / trained_on / save / train / classify / classify_proba /          *)
(* extract_forms), the FormClassifier wrapper and the module-level shared   *)
(* instance.                                                                *)
(*                                                                          *)
(* Spec      : the life cycle of model files, classifier instances and the  *)
(*             shared instance.                                             *)
(* SpecInfer : the inference methods of one trained instance, their inputs  *)
(*             and the outputs of the wrapped models drawn from bounded     *)
(*             sets.                                                        *)
(***************************************************************************)
EXTENDS Integers, Sequences, FiniteSets, TLC

VARIABLES
    env,          \* os.environ.get("FORMASAURUS_MODEL"): None or a path
    userDir,      \* whether the per-user data directory exists
    fs,           \* the model files: <<filename, kind>> -> "absent" | "partial" | "ok"
    objs,         \* the caller's variables that hold a FormFieldClassifier instance
    shared,       \* _form_field_classifier: 0 (None), or the instance, named by the
                  \* serial number of the FormFieldClassifier.load call that built it
    sharedLoads,  \* how often get_instance's FormFieldClassifier.load returned (saturating)
    last,         \* the last life-cycle call and what it did
    ret           \* the last inference call, its inputs and its result

vars == <<env, userDir, fs, objs, shared, sharedLoads, last, ret>>

None == "None"

\* ------------------------------------------------------------------ bounds
MaxObjs == 1      \* variables of the caller that hold an instance
LoadsCap == 2     \* sharedLoads saturates here

\* ------------------------------------------------------------ file system
\* the paths a model lives at: at_root("data", "model"), user_data_path(...)/"model",
\* and one path of the caller's choosing
Locations == {"root", "user", "custom"}

\* the filename a caller passes to save and load (None: load's default); the
\* same path is the one FORMASAURUS_MODEL names when it is set
Filenames == {"custom"}

_field_filename(filename) == <<filename, "field">>

_form_filename(filename) == <<filename, "form">>

FileNames == { _field_filename(l) : l \in Locations } \cup { _form_filename(l) : l \in Locations }

exists(f, name) == f[name] # "absent"

NoFiles == [n \in FileNames |-> "absent"]

\* the model files shipped inside the package directory
Bundled == [n \in FileNames |-> IF n[1] = "root" THEN "ok" ELSE "absent"]

\* ---------------------------------------------------------------- faults
\* what goes wrong in a call: nothing, a training function raises, or a save
\* stops inside joblib.dump, between the two writes, or after
\* open(form file, "w") and before json.dump has finished
Faults == {"none", "train_raises", "field_dump", "before_form", "form_dump"}

Cuts == Faults \ {"train_raises"}

\* ------------------------------------------------------------- instances
FormFieldClassifier(form_classifier, field_model) ==
    [form_classifier |-> form_classifier, _field_model |-> field_model]

\* train: form_classifier is assigned before either model is trained, the
\* field model only once both trainings have returned
train(self, fault) ==
    IF fault = "train_raises"
    THEN [obj |-> FormFieldClassifier("fc", self._field_model), err |-> "TrainError"]
    ELSE [obj |-> FormFieldClassifier("fc", "fm"), err |-> None]

\* trained_on: ex = cls(); ex.train(annotations); return ex
trained_on(fault) == train(FormFieldClassifier(None, None), fault)

\* save with the two writes swapped: the form file first
save_form_first(self, filename, fault) ==
    IF self.form_classifier = None \/ self._field_model = None
    THEN [fs |-> fs, err |-> "ValueError"]
    ELSE IF fault = "field_dump"
    THEN [fs |-> [fs EXCEPT ![_form_filename(filename)] = "partial"],
          err |-> "Interrupted"]
    ELSE IF fault = "before_form"
    THEN [fs |-> [fs EXCEPT ![_form_filename(filename)] = "ok"],
          err |-> "Interrupted"]
    ELSE IF fault = "form_dump"
    THEN [fs |-> [fs EXCEPT ![_form_filename(filename)] = "ok",
                            ![_field_filename(filename)] = "partial"],
          err |-> "Interrupted"]
    ELSE [fs |-> [fs EXCEPT ![_field_filename(filename)] = "ok",
                            ![_form_filename(filename)] = "ok"],
          err |-> None]

\* save that refuses only an instance with neither model set
save_checks_both(self, filename, fault) ==
    IF self.form_classifier = None /\ self._field_model = None
    THEN [fs |-> fs, err |-> "ValueError"]
    ELSE IF fault = "field_dump"
    THEN [fs |-> [fs EXCEPT ![_field_filename(filename)] = "partial"],
          err |-> "Interrupted"]
    ELSE IF fault = "before_form"
    THEN [fs |-> [fs EXCEPT ![_field_filename(filename)] = "ok"],
          err |-> "Interrupted"]
    ELSE IF fault = "form_dump"
    THEN [fs |-> [fs EXCEPT ![_field_filename(filename)] = "ok",
                            ![_form_filename(filename)] = "partial"],
          err |-> "Interrupted"]
    ELSE [fs |-> [fs EXCEPT ![_field_filename(filename)] = "ok",
                            ![_form_filename(filename)] = "ok"],
          err |-> None]

\* save: the files after it and how it ended
save(self, filename, fault) ==
    IF self.form_classifier = None \/ self._field_model = None
    THEN [fs |-> fs, err |-> "ValueError"]
    ELSE IF fault = "field_dump"
    THEN [fs |-> [fs EXCEPT ![_field_filename(filename)] = "partial"],
          err |-> "Interrupted"]
    ELSE IF fault = "before_form"
    THEN [fs |-> [fs EXCEPT ![_field_filename(filename)] = "ok"],
          err |-> "Interrupted"]
    ELSE IF fault = "form_dump"
    THEN [fs |-> [fs EXCEPT ![_field_filename(filename)] = "ok",
                            ![_form_filename(filename)] = "partial"],
          err |-> "Interrupted"]
    ELSE [fs |-> [fs EXCEPT ![_field_filename(filename)] = "ok",
                            ![_form_filename(filename)] = "ok"],
          err |-> None]

\* load, lines 123-135: the file name load works on
resolve(filename, rebuild) ==
    IF filename # None THEN filename
    ELSE IF env # None THEN env
    ELSE IF rebuild \/ ~exists(fs, _form_filename("root")) THEN "user"
    ELSE "root"

\* load, lines 129-134: user_data_path(ensure_exists=True) creates the directory
ensures_user_dir(filename, rebuild) ==
    filename = None /\ env = None /\ (rebuild \/ ~exists(fs, _form_filename("root")))

\* load, lines 142-148: read the two files
read_model(fn) ==
    IF fs[_form_filename(fn)] = "absent" THEN [obj |-> None, err |-> "FormFileMissing"]
    ELSE IF fs[_form_filename(fn)] = "partial" THEN [obj |-> None, err |-> "FormFileCorrupt"]
    ELSE IF fs[_field_filename(fn)] = "absent" THEN [obj |-> None, err |-> "FieldFileMissing"]
    ELSE IF fs[_field_filename(fn)] = "partial" THEN [obj |-> None, err |-> "FieldFileCorrupt"]
    ELSE [obj |-> FormFieldClassifier("fc", "fm"), err |-> None]

\* load that trains whenever autocreate is set, whether or not the form file exists
load_ignores_existing(filename, autocreate, rebuild, fault) ==
    LET fn == resolve(filename, rebuild)
        base == [fn |-> fn, mkdir |-> ensures_user_dir(filename, rebuild)]
    IN  IF rebuild \/ autocreate
        THEN LET t == trained_on(fault)
                 s == save(t.obj, fn, fault)
             IN  IF t.err # None
                 THEN [fs |-> fs, obj |-> None, err |-> t.err, branch |-> "train",
                       trained |-> TRUE, read |-> FALSE] @@ base
                 ELSE [fs |-> s.fs, obj |-> t.obj, err |-> s.err, branch |-> "train",
                       trained |-> TRUE, read |-> FALSE] @@ base
        ELSE LET r == read_model(fn)
             IN  [fs |-> fs, obj |-> r.obj, err |-> r.err, branch |-> "read",
                  trained |-> FALSE, read |-> TRUE] @@ base

\* load: the files after it, the instance returned (when err is None) and
\* what it did on the way
load(filename, autocreate, rebuild, fault) ==
    LET fn == resolve(filename, rebuild)
        base == [fn |-> fn, mkdir |-> ensures_user_dir(filename, rebuild)]
    IN  IF rebuild \/ (autocreate /\ ~exists(fs, _form_filename(fn)))
        THEN LET t == trained_on(fault)
                 s == save(t.obj, fn, fault)
             IN  IF t.err # None
                 THEN [fs |-> fs, obj |-> None, err |-> t.err, branch |-> "train",
                       trained |-> TRUE, read |-> FALSE] @@ base
                 ELSE [fs |-> s.fs, obj |-> t.obj, err |-> s.err, branch |-> "train",
                       trained |-> TRUE, read |-> FALSE] @@ base
        ELSE LET r == read_model(fn)
             IN  [fs |-> fs, obj |-> r.obj, err |-> r.err, branch |-> "read",
                  trained |-> FALSE, read |-> TRUE] @@ base

\* get_instance without the "is None" test: every call loads
get_instance_always_loads(fault) ==
    LET l == load(None, TRUE, FALSE, fault)
    IN  [inst |-> IF l.err = None THEN sharedLoads + 1 ELSE 0, called |-> TRUE, l |-> l]

\* get_instance: the instance it returns (0 when load raised), whether it
\* called load and what load did
get_instance(fault) ==
    IF shared = 0
    THEN LET l == load(None, TRUE, FALSE, fault)
         IN  [inst |-> IF l.err = None THEN sharedLoads + 1 ELSE 0, called |-> TRUE, l |-> l]
    ELSE [inst |-> shared, called |-> FALSE,
          l |-> [fs |-> fs, obj |-> None, err |-> None, branch |-> None,
                 trained |-> FALSE, read |-> FALSE, fn |-> None, mkdir |-> FALSE]]

\* ------------------------------------------------------------- inference
\* probabilities are multiples of 1/Scale
Scale == 2

Probabilities == 0..Scale

\* FormClassifier.classes: the form types, in the order of predict_proba's columns
classes == <<"login", "search">>

\* FormFieldClassifier.field_classes: the field types, in the field model's order
field_classes == <<"username", "other">>

Range(seq) == {seq[i] : i \in 1..Len(seq)}

IndexOf(seq, x) == CHOOSE i \in 1..Len(seq) : seq[i] = x

RECURSIVE SumSeq(_)
SumSeq(p) == IF p = <<>> THEN 0 ELSE Head(p) + SumSeq(Tail(p))

\* <form> elements: the names of their fields to annotate, in document order
Forms ==
    { [id |-> 1, fields |-> <<>>],
      [id |-> 2, fields |-> <<"q">>],
      [id |-> 3, fields |-> <<"user", "pass">>],
      [id |-> 4, fields |-> <<"x", "x">>] }

FormById(i) == CHOOSE f \in Forms : f.id = i

\* lxml trees, by number, and the HTML sources that parse to them
Trees == 1..3

Htmls == {"h2", "h3"}

\* formasaurus.html.load_html
load_html(html) == IF html = "h2" THEN 2 ELSE 3

\* formasaurus.html.get_forms: the forms of a tree, in document order
get_forms(tree) ==
    IF tree = 1 THEN <<>>
    ELSE IF tree = 2 THEN <<FormById(2)>>
    ELSE <<FormById(4), FormById(1)>>

\* formasaurus.html.get_fields_to_annotate
get_fields_to_annotate(form) == form.fields

\* fieldtype_model.get_form_features: one feature dict per field, each
\* carrying the form type it was given
get_form_features(form, form_type, field_elems) ==
    [i \in 1..Len(field_elems) |-> [name |-> field_elems[i], form_type |-> form_type]]

\* formasaurus.utils.thresholded: the items of dct whose value is >= threshold
thresholded(dct, threshold) ==
    [k \in {k \in DOMAIN dct : dct[k] >= threshold} |-> dct[k]]

\* the probability rows a model can return over n classes
Rows(n) == {p \in [1..n -> Probabilities] : SumSeq(p) = Scale}

\* the marginal probabilities of one field: a dict from field type to probability
Marginals == {[c \in Range(field_classes) |-> r[IndexOf(field_classes, c)]] :
                r \in Rows(Len(field_classes))}

\* what the wrapped models answer for one form: model.predict and
\* predict_single for classify, model.predict_proba and
\* predict_marginals_single for classify_proba; the field model answers only
\* when it is asked
Answers(form, proba, fields) ==
    LET n == IF fields THEN Len(form.fields) ELSE 0
    IN  IF proba
        THEN [proba : Rows(Len(classes)), marginals : [1..n -> Marginals]]
        ELSE [predict : Range(classes), labels : [1..n -> Range(field_classes)]]

RECURSIVE AnswerSeqs(_, _, _)
AnswerSeqs(forms, proba, fields) ==
    IF forms = <<>> THEN {<<>>}
    ELSE {<<h>> \o t : h \in Answers(Head(forms), proba, fields),
                        t \in AnswerSeqs(Tail(forms), proba, fields)}

\* dict(zip(self.classes, probs))
zip_classes(probs) == [c \in Range(classes) |-> probs[IndexOf(classes, c)]]

\* FormClassifier._probs2dict
_probs2dict(probs, threshold) == thresholded(zip_classes(probs), threshold)

\* FormClassifier.classify: self.model.predict([form])[0]
FormClassifier_classify(o) == o.predict

\* FormClassifier.classify_proba
FormClassifier_classify_proba(o, threshold) == _probs2dict(o.proba, threshold)

\* max(d, key=lambda p: d[p]): the first key, in the dict's order, of the
\* largest value; ValueError on an empty dict
max_key(d) ==
    LET idx == {i \in 1..Len(classes) :
                  /\ classes[i] \in DOMAIN d
                  /\ \A k \in DOMAIN d : d[k] <= d[classes[i]]}
    IN  classes[CHOOSE i \in idx : \A j \in idx : i <= j]

\* {elem.name: value for elem, value in zip(field_elems, yseq)}: a later
\* field of the same name replaces an earlier one
by_name(field_elems, yseq) ==
    [n \in Range(field_elems) |->
        yseq[CHOOSE i \in 1..Len(field_elems) :
                /\ field_elems[i] = n
                /\ \A j \in 1..Len(field_elems) : field_elems[j] = n => j <= i]]

\* classify that hands the feature extraction a fixed form type
classify_fixed_type(form, fields, o) ==
    LET form_type == FormClassifier_classify(o)
        field_elems == get_fields_to_annotate(form)
        xseq == get_form_features(form, classes[1], field_elems)
        yseq == o.labels
    IN  IF fields
        THEN [err |-> None, invoked |-> TRUE, xseq |-> xseq,
              res |-> [form |-> form_type, fields |-> by_name(field_elems, yseq)]]
        ELSE [err |-> None, invoked |-> FALSE, xseq |-> <<>>,
              res |-> [form |-> form_type]]

\* FormFieldClassifier.classify: the dict returned, the form type given to
\* the feature extraction and whether the field model was invoked
classify(form, fields, o) ==
    LET form_type == FormClassifier_classify(o)
        field_elems == get_fields_to_annotate(form)
        xseq == get_form_features(form, form_type, field_elems)
        yseq == o.labels
    IN  IF fields
        THEN [err |-> None, invoked |-> TRUE, xseq |-> xseq,
              res |-> [form |-> form_type, fields |-> by_name(field_elems, yseq)]]
        ELSE [err |-> None, invoked |-> FALSE, xseq |-> <<>>,
              res |-> [form |-> form_type]]

\* classify_proba that applies the threshold to the form types only
classify_proba_raw_fields(form, threshold, fields, o) ==
    LET form_types_proba == FormClassifier_classify_proba(o, threshold)
        form_type == max_key(form_types_proba)
        field_elems == get_fields_to_annotate(form)
        xseq == get_form_features(form, form_type, field_elems)
        yseq == o.marginals
    IN  IF ~fields
        THEN [err |-> None, invoked |-> FALSE, xseq |-> <<>>,
              res |-> [form |-> form_types_proba]]
        ELSE IF DOMAIN form_types_proba = {}
        THEN [err |-> "ValueError", invoked |-> FALSE, xseq |-> <<>>, res |-> <<>>]
        ELSE [err |-> None, invoked |-> TRUE, xseq |-> xseq,
              res |-> [form |-> form_types_proba,
                       fields |-> by_name(field_elems, yseq)]]

\* FormFieldClassifier.classify_proba: the dict returned (ValueError when max
\* is given the empty dict), the features and whether the field model was invoked
classify_proba(form, threshold, fields, o) ==
    LET form_types_proba == FormClassifier_classify_proba(o, threshold)
        form_type == max_key(form_types_proba)
        field_elems == get_fields_to_annotate(form)
        xseq == get_form_features(form, form_type, field_elems)
        yseq == o.marginals
    IN  IF ~fields
        THEN [err |-> None, invoked |-> FALSE, xseq |-> <<>>,
              res |-> [form |-> form_types_proba]]
        ELSE IF DOMAIN form_types_proba = {}
        THEN [err |-> "ValueError", invoked |-> FALSE, xseq |-> <<>>, res |-> <<>>]
        ELSE [err |-> None, invoked |-> TRUE, xseq |-> xseq,
              res |-> [form |-> form_types_proba,
                       fields |-> by_name(field_elems,
                                          [i \in 1..Len(field_elems) |->
                                              thresholded(yseq[i], threshold)])]]

\* the tree extract_forms works on
tree_of(tree_or_html) ==
    IF tree_or_html.kind \in {"str", "bytes"} THEN load_html(tree_or_html.html)
    ELSE tree_or_html.tree

\* FormFieldClassifier.extract_forms: a classify_proba that raises ends the
\* list comprehension
extract_forms(tree_or_html, proba, threshold, fields, os) ==
    LET tree == tree_of(tree_or_html)
        forms == get_forms(tree)
        infos == [i \in 1..Len(forms) |->
                    IF proba THEN classify_proba(forms[i], threshold, fields, os[i])
                    ELSE classify(forms[i], fields, os[i])]
    IN  IF \E i \in 1..Len(forms) : infos[i].err # None
        THEN [err |-> "ValueError", res |-> <<>>, parsed |-> tree_or_html.kind # "tree"]
        ELSE [err |-> None, res |-> [i \in 1..Len(forms) |-> <<forms[i], infos[i].res>>],
              parsed |-> tree_or_html.kind # "tree"]

\* what extract_forms can be given: a tree, or HTML source as str or bytes
Inputs ==
    {[kind |-> "tree", tree |-> t, html |-> ""] : t \in Trees}
    \cup {[kind |-> k, tree |-> 0, html |-> h] : k \in {"str", "bytes"}, h \in Htmls}

NoCall == [op |-> "none"]

\* ------------------------------------------------------------ life cycle
\* last: the call, how it ended, the variable it ran on or was assigned to,
\* and the branch load took in it
Call(op, err, inst, branch) == [op |-> op, err |-> err, inst |-> inst, branch |-> branch]

\* v = <an instance>: the caller binds its variable i, a new one or one it has
Bind(i, obj) == IF i = Len(objs) + 1 THEN Append(objs, obj) ELSE [objs EXCEPT ![i] = obj]

Init ==
    /\ env \in {None} \cup Filenames
    /\ userDir = FALSE
    /\ fs \in {NoFiles, Bundled}
    /\ objs = <<>>
    /\ shared = 0
    /\ sharedLoads = 0
    /\ last = Call("none", None, 0, None)
    /\ ret = NoCall

\* v = FormFieldClassifier(form_classifier=..., field_model=...)
New(i, fc, fm) ==
    /\ i \in 1..(Len(objs) + 1)
    /\ objs' = Bind(i, FormFieldClassifier(fc, fm))
    /\ last' = Call("init", None, i, None)
    /\ UNCHANGED <<env, userDir, fs, shared, sharedLoads, ret>>

\* v.train(annotations)
Train(i, fault) ==
    /\ i \in 1..Len(objs)
    /\ LET t == train(objs[i], fault)
       IN  /\ objs' = [objs EXCEPT ![i] = t.obj]
           /\ last' = Call("train", t.err, i, None)
    /\ UNCHANGED <<env, userDir, fs, shared, sharedLoads, ret>>

\* v = FormFieldClassifier.trained_on(data_folder)
TrainedOn(i, fault) ==
    /\ i \in 1..(Len(objs) + 1)
    /\ LET t == trained_on(fault)
       IN  /\ objs' = IF t.err = None THEN Bind(i, t.obj) ELSE objs
           /\ last' = Call("trained_on", t.err, IF t.err = None THEN i ELSE 0, None)
    /\ UNCHANGED <<env, userDir, fs, shared, sharedLoads, ret>>

\* v.save(filename)
Save(i, filename, fault) ==
    /\ i \in 1..Len(objs)
    /\ LET s == save(objs[i], filename, fault)
       IN  /\ fs' = s.fs
           /\ last' = Call("save", s.err, i, None)
    /\ UNCHANGED <<env, userDir, objs, shared, sharedLoads, ret>>

\* v = FormFieldClassifier.load(filename, autocreate, rebuild)
Load(i, filename, autocreate, rebuild, fault) ==
    /\ i \in 1..(Len(objs) + 1)
    /\ LET l == load(filename, autocreate, rebuild, fault)
       IN  /\ fs' = l.fs
           /\ userDir' = (userDir \/ l.mkdir)
           /\ objs' = IF l.err = None THEN Bind(i, l.obj) ELSE objs
           /\ last' = Call("load", l.err, IF l.err = None THEN i ELSE 0, l.branch)
    /\ UNCHANGED <<env, shared, sharedLoads, ret>>

\* a module-level call: get_instance(), then the method of the instance it
\* returned (the methods change no state; what they return is SpecInfer's)
ModuleCall(op, fault) ==
    LET g == get_instance(fault)
    IN  /\ fs' = g.l.fs
        /\ userDir' = (userDir \/ g.l.mkdir)
        /\ shared' = g.inst
        /\ sharedLoads' = IF g.called /\ g.l.err = None /\ sharedLoads < LoadsCap
                          THEN sharedLoads + 1 ELSE sharedLoads
        /\ last' = Call(op, g.l.err, g.inst, g.l.branch)
        /\ UNCHANGED <<env, objs, ret>>

\* get_instance()
GetInstance == \E fault \in Faults : ModuleCall("get_instance", fault)

\* extract_forms(tree_or_html, proba, threshold, fields)
ModExtractForms == \E fault \in Faults : ModuleCall("extract_forms", fault)

\* classify(form, fields)
ModClassify == \E fault \in Faults : ModuleCall("classify", fault)

\* classify_proba(form, threshold, fields)
ModClassifyProba == \E fault \in Faults : ModuleCall("classify_proba", fault)

Next ==
    \/ \E i \in 1..MaxObjs, fc \in {None, "fc"}, fm \in {None, "fm"} : New(i, fc, fm)
    \/ \E i \in 1..MaxObjs, fault \in {"none", "train_raises"} : Train(i, fault)
    \/ \E i \in 1..MaxObjs, fault \in {"none", "train_raises"} : TrainedOn(i, fault)
    \/ \E i \in 1..MaxObjs, fn \in Filenames, fault \in Cuts : Save(i, fn, fault)
    \/ \E i \in 1..MaxObjs, fn \in Filenames \cup {None}, a \in BOOLEAN, r \in BOOLEAN,
          fault \in Faults : Load(i, fn, a, r, fault)
    \/ GetInstance
    \/ ModExtractForms
    \/ ModClassify
    \/ ModClassifyProba

Spec == Init /\ [][Next]_vars

\* ------------------------------------------------- inference, as actions
lifecycle == <<env, userDir, fs, objs, shared, sharedLoads, last>>

\* one trained instance, no call made yet
InitInfer ==
    /\ env = None
    /\ userDir = FALSE
    /\ fs = Bundled
    /\ objs = <<FormFieldClassifier("fc", "fm")>>
    /\ shared = 0
    /\ sharedLoads = 0
    /\ last = Call("none", None, 0, None)
    /\ ret = NoCall

\* objs[1].classify(form, fields)
Classify(form, fields, o) ==
    /\ ret.op = "none"
    /\ ret' = [op |-> "classify", form |-> form, fields |-> fields, o |-> o,
               out |-> classify(form, fields, o)]
    /\ UNCHANGED lifecycle

\* objs[1].classify_proba(form, threshold, fields)
ClassifyProba(form, threshold, fields, o) ==
    /\ ret.op = "none"
    /\ ret' = [op |-> "classify_proba", form |-> form, threshold |-> threshold,
               fields |-> fields, o |-> o,
               out |-> classify_proba(form, threshold, fields, o)]
    /\ UNCHANGED lifecycle

\* objs[1].extract_forms(tree_or_html, proba, threshold, fields)
ExtractForms(tree_or_html, proba, threshold, fields, os) ==
    /\ ret.op = "none"
    /\ ret' = [op |-> "extract_forms", input |-> tree_or_html, proba |-> proba,
               threshold |-> threshold, fields |-> fields, o |-> os,
               out |-> extract_forms(tree_or_html, proba, threshold, fields, os)]
    /\ UNCHANGED lifecycle

\* the caller takes the result
Return ==
    /\ ret.op # "none"
    /\ ret' = NoCall
    /\ UNCHANGED lifecycle

NextInfer ==
    \/ \E form \in Forms, fields \in BOOLEAN :
          \E o \in Answers(form, FALSE, fields) : Classify(form, fields, o)
    \/ \E form \in Forms, threshold \in Probabilities, fields \in BOOLEAN :
          \E o \in Answers(form, TRUE, fields) : ClassifyProba(form, threshold, fields, o)
    \/ \E input \in Inputs, proba \in BOOLEAN, threshold \in Probabilities, fields \in BOOLEAN :
          \E os \in AnswerSeqs(get_forms(tree_of(input)), proba, fields) :
              ExtractForms(input, proba, threshold, fields, os)
    \/ Return

SpecInfer == InitInfer /\ [][NextInfer]_vars

\* ------------------------------------------------------------ properties
Trained(o) == o.form_classifier # None /\ o._field_model # None

SavedAt(f, fn) == [f EXCEPT ![_field_filename(fn)] = "ok", ![_form_filename(fn)] = "ok"]

ModuleOps == {"get_instance", "extract_forms", "classify", "classify_proba"}

\* what load does, for every call it can be given in the current state
LoadBranches ==
    \A filename \in Filenames \cup {None}, autocreate \in BOOLEAN, rebuild \in BOOLEAN,
       fault \in Faults :
        LET l == load(filename, autocreate, rebuild, fault)
            missing == ~exists(fs, _form_filename(l.fn))
        IN  /\ (rebuild \/ (missing /\ autocreate)) =>
                /\ l.trained /\ ~l.read
                /\ l.err \in {None, "TrainError", "Interrupted"}
                /\ fault = "none" =>
                      l.err = None /\ Trained(l.obj) /\ l.fs = SavedAt(fs, l.fn)
            /\ (~missing /\ ~rebuild) =>
                /\ l.read /\ ~l.trained /\ l.fs = fs
                /\ l.err = None => Trained(l.obj)
            /\ (missing /\ ~autocreate /\ ~rebuild) =>
                l.err # None /\ ~l.trained /\ l.fs = fs

\* what a step that called load leaves behind
LoadStep ==
    last'.op = "load" =>
        /\ last'.branch = "read" => fs' = fs
        /\ last'.err # None => objs' = objs
        /\ (last'.branch = "train" /\ last'.err = None) =>
              /\ \E fn \in Locations : fs' = SavedAt(fs, fn)
              /\ Trained(objs'[last'.inst])

\* C5: FormFieldClassifier.load trains on the default data, saves under the
\* resolved filename and returns the trained instance, reading no model file,
\* when rebuild is set or the form file is missing and autocreate is set; it
\* reads the existing files and trains and writes nothing when the form file
\* exists and rebuild is not set; it fails, and trains and writes nothing,
\* when the form file is missing and neither autocreate nor rebuild is set.
C5_LoadBranches == []LoadBranches /\ [][LoadStep]_vars

C5_Witness ==
    /\ last.op = "load" /\ last.branch = "train" /\ last.err = None
    /\ fs[_form_filename("user")] = "ok" /\ fs[_field_filename("user")] = "ok"

\* a module-level call either finds the shared instance and uses it, or
\* finds none, calls load, and keeps what load returns
ModuleStep ==
    last'.op \in ModuleOps =>
        /\ shared # 0 =>
              shared' = shared /\ last'.inst = shared /\ last'.branch = None /\ fs' = fs
        /\ shared = 0 =>
              /\ last'.branch # None
              /\ last'.err # None => shared' = 0
              /\ last'.err = None => shared' # 0 /\ last'.inst = shared'

\* C6: over the module-level calls, FormFieldClassifier.load returns at most
\* once, every call uses the one shared instance, the shared instance once
\* set is never replaced or reset, and a call whose load raises leaves it
\* unset, so that the next call loads again.
C6_SharedInstance ==
    /\ [](sharedLoads <= 1)
    /\ [][ModuleStep]_vars
    /\ [][shared # 0 => shared' = shared]_vars

C6_Witness ==
    /\ last.op = "classify" /\ last.branch = None /\ last.inst = shared
    /\ shared # 0 /\ sharedLoads = 1

\* what save does, for every instance and file name in the current state
SaveGuard ==
    \A i \in 1..Len(objs), fn \in Filenames, fault \in Cuts :
        LET s == save(objs[i], fn, fault)
        IN  /\ ~Trained(objs[i]) => s.err = "ValueError" /\ s.fs = fs
            /\ Trained(objs[i]) => s.err # "ValueError"

\* an instance that train, trained_on or load has just returned has both models
TrainedAfter ==
    (last.op \in {"train", "trained_on", "load"} /\ last.err = None) =>
        Trained(objs[last.inst])

\* a save step raises ValueError exactly on an untrained instance and then
\* writes nothing; a further train never unsets a model
SaveStep ==
    /\ last'.op = "save" =>
          /\ last'.err = "ValueError" <=> ~Trained(objs[last'.inst])
          /\ last'.err = "ValueError" => fs' = fs
    /\ (last'.op = "train" /\ Trained(objs[last'.inst])) => Trained(objs'[last'.inst])

\* C7: save raises ValueError and writes neither file when form_classifier
\* or the field model is None; train sets both, so save on an instance that
\* was trained or returned by load never raises it.
C7_SaveNeedsTrained == []SaveGuard /\ []TrainedAfter /\ [][SaveStep]_vars

C7_Witness ==
    /\ last.op = "save" /\ last.err = "ValueError"
    /\ objs[last.inst].form_classifier # None /\ objs[last.inst]._field_model = None
    /\ \A l \in Filenames : ~exists(fs, _field_filename(l)) /\ ~exists(fs, _form_filename(l))

\* C8: wherever the form file exists the field file exists too, whatever
\* saves (interrupted at any point) and loads came before, and no load that
\* reads the existing files fails for a missing field file.
C8_FieldBeforeForm ==
    /\ \A l \in Locations : exists(fs, _form_filename(l)) => exists(fs, _field_filename(l))
    /\ last.branch = "read" => last.err # "FieldFileMissing"
    /\ \A filename \in Filenames \cup {None}, autocreate \in BOOLEAN, rebuild \in BOOLEAN :
          load(filename, autocreate, rebuild, "none").err # "FieldFileMissing"

C8_Witness ==
    /\ last.op = "load" /\ last.branch = "read" /\ last.err = "FormFileCorrupt"
    /\ fs[_form_filename("custom")] = "partial" /\ fs[_field_filename("custom")] = "ok"

\* ------------------------------------------------- properties, inference
\* the index of the last field of that name
LastNamed(field_elems, n) ==
    CHOOSE i \in 1..Len(field_elems) :
        field_elems[i] = n /\ \A j \in 1..Len(field_elems) : field_elems[j] = n => j <= i

\* the form types of the highest probability in a row of predict_proba
MostProbable(probs) ==
    {classes[i] : i \in {i \in 1..Len(classes) : \A j \in 1..Len(classes) : probs[j] <= probs[i]}}

\* C1: extract_forms returns one (form, form_info) tuple per form of the
\* input, in get_forms' order, form_info being classify's result when proba
\* is False and classify_proba's when it is True; str and bytes inputs are
\* parsed with load_html, any other input is the tree.
C1_ExtractForms ==
    ret.op = "extract_forms" =>
        LET tree == IF ret.input.kind \in {"str", "bytes"} THEN load_html(ret.input.html)
                    ELSE ret.input.tree
            forms == get_forms(tree)
        IN  /\ ret.out.err = None
            /\ ret.out.parsed = (ret.input.kind \in {"str", "bytes"})
            /\ Len(ret.out.res) = Len(forms)
            /\ \A i \in 1..Len(forms) :
                  /\ ret.out.res[i][1] = forms[i]
                  /\ ret.out.res[i][2] =
                        IF ret.proba
                        THEN classify_proba(forms[i], ret.threshold, ret.fields, ret.o[i]).res
                        ELSE classify(forms[i], ret.fields, ret.o[i]).res

\* C2: classify returns exactly {'form'} when fields is False, the field
\* model not being invoked, and exactly {'form', 'fields'} when it is True;
\* 'form' is the form classifier's prediction, and it is the form type
\* handed to the field feature extraction.
C2_ClassifyKeys ==
    ret.op = "classify" =>
        /\ ret.out.err = None
        /\ ret.out.res.form = ret.o.predict
        /\ ~ret.fields => DOMAIN ret.out.res = {"form"} /\ ~ret.out.invoked
        /\ ret.fields =>
              /\ DOMAIN ret.out.res = {"form", "fields"}
              /\ ret.out.invoked
              /\ Len(ret.out.xseq) = Len(ret.form.fields)
              /\ \A i \in 1..Len(ret.out.xseq) : ret.out.xseq[i].form_type = ret.o.predict
              /\ DOMAIN ret.out.res.fields = Range(ret.form.fields)
              /\ \A n \in Range(ret.form.fields) :
                    ret.out.res.fields[n] = ret.o.labels[LastNamed(ret.form.fields, n)]

C2_Witness ==
    /\ ret.op = "classify" /\ ret.fields /\ Len(ret.form.fields) = 2
    /\ ret.out.res.form = classes[2] /\ ret.out.xseq[2].form_type = classes[2]

\* C3: in a result of classify_proba, the form types kept are exactly those
\* of probability >= threshold, and for every field the field types kept are
\* exactly those of marginal probability >= threshold, with the
\* probabilities unchanged.
C3_Thresholded ==
    (ret.op = "classify_proba" /\ ret.out.err = None) =>
        /\ \A i \in 1..Len(classes) :
              /\ classes[i] \in DOMAIN ret.out.res.form <=> ret.o.proba[i] >= ret.threshold
              /\ classes[i] \in DOMAIN ret.out.res.form =>
                    ret.out.res.form[classes[i]] = ret.o.proba[i]
        /\ ret.fields =>
              /\ DOMAIN ret.out.res.fields = Range(ret.form.fields)
              /\ \A n \in Range(ret.form.fields) :
                    LET probs == ret.o.marginals[LastNamed(ret.form.fields, n)]
                        kept == ret.out.res.fields[n]
                    IN  \A c \in Range(field_classes) :
                          /\ c \in DOMAIN kept <=> probs[c] >= ret.threshold
                          /\ c \in DOMAIN kept => kept[c] = probs[c]

C3_Witness ==
    /\ ret.op = "classify_proba" /\ ret.out.err = None /\ ret.fields
    /\ ret.threshold > 0
    /\ DOMAIN ret.out.res.form = {classes[1]}
    /\ \E n \in Range(ret.form.fields) :
          /\ DOMAIN ret.out.res.fields[n] = {field_classes[2]}
          /\ ret.o.marginals[LastNamed(ret.form.fields, n)][field_classes[1]] < ret.threshold

\* C4: for every threshold in [0, 1], classify_proba with fields=True returns
\* a dict with 'form' and 'fields', the field features being built for the
\* form type of the highest probability, whatever the threshold.
C4_AnyThreshold ==
    (ret.op = "classify_proba" /\ ret.fields) =>
        /\ ret.out.err = None
        /\ DOMAIN ret.out.res = {"form", "fields"}
        /\ \A i \in 1..Len(ret.out.xseq) :
              ret.out.xseq[i].form_type \in MostProbable(ret.o.proba)

====
